---------------------------- MODULE Spec2Model ----------------------------
(***************************************************************************)
(* hlscheck: the M3U8 playlist parser (package plist), the per-variant     *)
(* checker (package checker: Loop, RetryCheckSegment, CheckSegment) and    *)
(* main.StartPlaylistChecker.                                              *)
(*                                                                         *)
(* Four specifications share the variables below:                          *)
(*   SpecParse  one pass of plist.Parse over a playlist text, line by line *)
(*   Spec       Checker.Loop, one monitor polling its variant playlist     *)
(*   SpecRetry  Checker.RetryCheckSegment / CheckSegment on one checker    *)
(*   SpecMain   StartPlaylistChecker and the Loops of the checkers it      *)
(*              starts, running side by side                               *)
(*                                                                         *)
(* Strings are Go strings; a playlist text is held as the result of        *)
(* strings.Split(str, "\n"), a non-empty sequence of lines.  Numbers are   *)
(* uint64 in the code; the texts of the model hold at most seven digits,   *)
(* so no value of the model comes near 2^64 and wrap-around is not         *)
(* modelled.                                                               *)
(***************************************************************************)
EXTENDS Integers, Sequences, FiniteSets, TLC

VARIABLES
    \* ---- plist.Parse (one pass) ----
    text,       \* strings.Split(str, "\n")
    lineIdx,    \* index of the next line of the range loop, 0-based as in Go
    pst,        \* [pl, currentEntry, isExtM3U, err]: the locals of Parse and *pl
    ppc,        \* "idle" | "loop" | "done"
    \* ---- checker.Checker and Checker.Loop ----
    c,          \* the Checker: URL, CurrentMediaSequence and the four counters
    lpc,        \* "tick" (blocked on runTimer.C) | "fetch" | "range"
    tickPending,\* the ticker's channel (capacity 1) holds a tick
    fired,      \* history: how often the ticker fired since Loop last received a
                \* tick: "none" | "one" | "several"
    overrun,    \* history: the ticker had fired several times when Loop last received
    lpl,        \* Loop's local pl
    lerr,       \* err of the last FetchAndParse of Loop
    li,         \* index into lpl.Entries of the range loop, 1-based
    dispatched, \* history: MediaSequence of every entry Loop passed to RetryCheckSegment
    cycleStart, \* history: the Checker when the current cycle started
    cycleCalls, \* history: the part of dispatched made in the current cycle
    \* ---- Checker.RetryCheckSegment ----
    rpc,        \* "idle" | "cond" | "check" | "sleep" | "switch" | "done"
    numRetries,
    result,
    resp,       \* what the server answered the CheckSegment call that just returned (<<>>: none)
    rlog,       \* history: the result of every CheckSegment call of this invocation
    c0,         \* history: the Checker when RetryCheckSegment was entered
    \* ---- main.StartPlaylistChecker and the checkers it starts ----
    spc,        \* "idle" | "fetch" | "switch" | "range" | "wait" (main blocked on signals) | "exit"
    spl,        \* StartPlaylistChecker's local pl
    si,         \* index into spl.Entries of the range loop, 1-based
    monitors    \* the checkers started so far, in the order of the New calls: of each
                \* its Checker c, the position lpc of its Loop ("tick" | "fetch" |
                \* "hung" | "range"), Loop's locals pl and li, and the history flag
                \* besideHung (its current cycle began while another checker was hung)

parseVars == <<text, lineIdx, pst, ppc>>
loopVars  == <<lpc, tickPending, fired, overrun, lpl, lerr, li, dispatched, cycleStart, cycleCalls>>
retryVars == <<rpc, numRetries, result, resp, rlog, c0>>
mainVars  == <<spc, spl, si, monitors>>
vars      == <<text, lineIdx, pst, ppc, c, lpc, tickPending, fired, overrun, lpl, lerr, li,
               dispatched, cycleStart, cycleCalls, rpc, numRetries, result, resp, rlog, c0,
               spc, spl, si, monitors>>

---------------------------------------------------------------------------
(* Bounds of the model *)

\* blocks (a tag, or a tag and its reference line) a text of SpecParse is made of
MaxBlocks == 3
\* segment pairs in a playlist the monitored server returns
MaxSegs == 3
\* largest EXT-X-MEDIA-SEQUENCE value the monitored server sends
MaxSeq == 4
\* RetryCheckSegment is not invoked again once the four counters add up to this
MaxCount == 2

---------------------------------------------------------------------------
(* Go's strings and strconv, as far as the parser uses them *)

\* strings.HasPrefix
HasPrefix(s, p) == Len(s) >= Len(p) /\ SubSeq(s, 1, Len(p)) = p

\* strings.CutPrefix: (after, found)
CutPrefix(s, p) ==
    IF HasPrefix(s, p) THEN [after |-> SubSeq(s, Len(p) + 1, Len(s)), found |-> TRUE]
    ELSE [after |-> s, found |-> FALSE]

\* strings.Index for a one-character separator, 1-based; 0 when absent
RECURSIVE IndexFrom(_, _, _)
IndexFrom(s, ch, i) ==
    IF i > Len(s) THEN 0
    ELSE IF SubSeq(s, i, i) = ch THEN i
    ELSE IndexFrom(s, ch, i + 1)

\* strings.Split(s, sep) for a one-character sep: Split("", sep) is one empty string
RECURSIVE Split(_, _)
Split(s, sep) ==
    LET k == IndexFrom(s, sep, 1) IN
    IF k = 0 THEN <<s>>
    ELSE <<SubSeq(s, 1, k - 1)>> \o Split(SubSeq(s, k + 1, Len(s)), sep)

\* strings.Join
RECURSIVE Join(_, _)
Join(elems, sep) ==
    IF Len(elems) = 0 THEN ""
    ELSE IF Len(elems) = 1 THEN elems[1]
    ELSE elems[1] \o sep \o Join(Tail(elems), sep)

\* strings.Trim(s, "\" "): leading and trailing quotes and spaces removed
RECURSIVE TrimLeft(_)
TrimLeft(s) ==
    IF Len(s) > 0 /\ SubSeq(s, 1, 1) \in {"\"", " "} THEN TrimLeft(SubSeq(s, 2, Len(s)))
    ELSE s

RECURSIVE TrimRight(_)
TrimRight(s) ==
    IF Len(s) > 0 /\ SubSeq(s, Len(s), Len(s)) \in {"\"", " "}
    THEN TrimRight(SubSeq(s, 1, Len(s) - 1))
    ELSE s

Trim(s) == TrimRight(TrimLeft(s))

Digits == {"0", "1", "2", "3", "4", "5", "6", "7", "8", "9"}

DigitVal(ch) ==
    CASE ch = "0" -> 0 [] ch = "1" -> 1 [] ch = "2" -> 2 [] ch = "3" -> 3
      [] ch = "4" -> 4 [] ch = "5" -> 5 [] ch = "6" -> 6 [] ch = "7" -> 7
      [] ch = "8" -> 8 [] ch = "9" -> 9

AllDigits(s) == \A i \in 1..Len(s) : SubSeq(s, i, i) \in Digits

RECURSIVE DecVal(_, _)
DecVal(s, acc) ==
    IF Len(s) = 0 THEN acc
    ELSE DecVal(SubSeq(s, 2, Len(s)), acc * 10 + DigitVal(SubSeq(s, 1, 1)))

\* strconv.ParseUint(s, 10, 64): one or more decimal digits, no sign, nothing else
ParseUint(s) ==
    IF Len(s) > 0 /\ AllDigits(s) THEN [ok |-> TRUE, val |-> DecVal(s, 0)]
    ELSE [ok |-> FALSE, val |-> 0]

\* 10^n
RECURSIVE Pow10(_)
Pow10(n) == IF n = 0 THEN 1 ELSE 10 * Pow10(n - 1)

\* strconv.ParseFloat(s, 64) on decimal literals [+-]digits[.digits] with at most
\* three fraction digits; the value is held in thousandths.  Everything else the
\* model's texts contain ("abc", "") is a syntax error, as in Go.
ParseFloat(s) ==
    LET signed == Len(s) > 0 /\ SubSeq(s, 1, 1) \in {"+", "-"}
        neg    == Len(s) > 0 /\ SubSeq(s, 1, 1) = "-"
        body   == IF signed THEN SubSeq(s, 2, Len(s)) ELSE s
        dot    == IndexFrom(body, ".", 1)
        ip     == IF dot = 0 THEN body ELSE SubSeq(body, 1, dot - 1)
        fp     == IF dot = 0 THEN "" ELSE SubSeq(body, dot + 1, Len(body))
        okSyn  == /\ AllDigits(ip) /\ AllDigits(fp)
                  /\ Len(ip) + Len(fp) > 0
                  /\ Len(fp) <= 3
        milli  == DecVal(ip, 0) * 1000 + DecVal(fp, 0) * Pow10(3 - Len(fp))
    IN IF okSyn THEN [ok |-> TRUE, val |-> IF neg THEN 0 - milli ELSE milli]
       ELSE [ok |-> FALSE, val |-> 0]

---------------------------------------------------------------------------
(* net/url and path, as far as Parse uses them *)

\* index of the last "/" of s, 0 when there is none
RECURSIVE LastSlash(_, _)
LastSlash(s, i) ==
    IF i = 0 THEN 0
    ELSE IF SubSeq(s, i, i) = "/" THEN i
    ELSE LastSlash(s, i - 1)

\* path.Dir on a clean path: all but the last element
PathDir(p) ==
    LET k == LastSlash(p, Len(p)) IN
    IF Len(p) = 0 \/ k = 0 THEN "."
    ELSE IF k = 1 THEN "/"
    ELSE SubSeq(p, 1, k - 1)

\* url.Parse of scheme://host/path (no query, no fragment): (prefix, Path)
UrlParse(u) ==
    LET k == IndexFrom(u, ":", 1)
        h == IF k = 0 THEN 0 ELSE IndexFrom(u, "/", k + 3)
    IN IF k = 0 THEN [prefix |-> "", path |-> u]
       ELSE IF h = 0 THEN [prefix |-> u, path |-> ""]
       ELSE [prefix |-> SubSeq(u, 1, h - 1), path |-> SubSeq(u, h, Len(u))]

\* URL.String of a parsed URL
UrlString(u) == u.prefix \o u.path

\* baseUrl of Parse: the playlist URL with the playlist's name removed
BaseUrl(plUrlStr) ==
    LET u == UrlParse(plUrlStr) IN UrlString([u EXCEPT !.path = PathDir(u.path)])

\* url.JoinPath(base, elem) for an elem of plain path characters
JoinPath(base, elem) ==
    IF Len(base) > 0 /\ SubSeq(base, Len(base), Len(base)) = "/" THEN base \o elem
    ELSE base \o "/" \o elem

---------------------------------------------------------------------------
(* package plist: types *)

VariantPlist == "VariantPlist"
MasterPlist  == "MasterPlist"

\* Entry{}: the zero value.  DurationSec is held in thousandths of a second.
EmptyEntry ==
    [BandwidthBps |-> 0, Codecs |-> "", MediaSequence |-> 0, DurationSec |-> 0,
     ExtraInfo |-> "", URL |-> ""]

\* Plist{}: the zero value (Type 0 is VariantPlist)
EmptyPlist ==
    [Type |-> VariantPlist, Entries |-> <<>>, CurrentMediaSequence |-> 0,
     TargetDurationSec |-> 0]

\* a nil error; an error of Parse carries the lineIdx it was wrapped with
NoErr == [msg |-> "", line |-> -1]

LineErr(idx, msg) == [msg |-> msg, line |-> idx]

\* the error of Parse's final check, which carries no line
NotExtM3UErr == [msg |-> "playlist is not in extended m3u format", line |-> -1]

\* a transport or body-read failure of FetchAndParse
FetchErr == [msg |-> "fetching playlist failed", line |-> -1]

---------------------------------------------------------------------------
(* package plist: the tag parsers.  Each returns the changed value and the  *)
(* error message ("" for nil).                                              *)

\* the attribute loop of parseStreamInfTag, returning at the first error
RECURSIVE StreamInfAttrs(_, _, _)
StreamInfAttrs(e, attrList, bandwidthPresent) ==
    IF Len(attrList) = 0
    THEN IF bandwidthPresent THEN [e |-> e, err |-> ""]
         ELSE [e |-> e, err |-> "missing bandwidth attribute in EXT-X-STREAM-INF tag"]
    ELSE LET attrSplit == Split(Head(attrList), "=") IN
         IF Len(attrSplit) < 2
         THEN [e |-> e, err |-> "malformed attribute in EXT-X-STREAM-INF tag"]
         ELSE LET attrName  == attrSplit[1]
                  attrValue == Join(Tail(attrSplit), "=")
                  bandwidth == ParseUint(attrValue)
              IN IF attrName = "BANDWIDTH"
                 THEN IF ~bandwidth.ok
                      THEN [e |-> e,
                            err |-> "unable to parse bandwidth attribute in EXT-X-STREAM-INF tag"]
                      ELSE StreamInfAttrs([e EXCEPT !.BandwidthBps = bandwidth.val],
                                          Tail(attrList), TRUE)
                 ELSE IF attrName = "CODECS"
                 THEN StreamInfAttrs([e EXCEPT !.Codecs = Trim(attrValue)],
                                     Tail(attrList), bandwidthPresent)
                 ELSE StreamInfAttrs(e, Tail(attrList), bandwidthPresent)

parseStreamInfTag(e, tag) ==
    LET cut == CutPrefix(tag, "EXT-X-STREAM-INF:") IN
    IF ~cut.found THEN [e |-> e, err |-> "malformed EXT-X-STREAM-INF tag"]
    ELSE StreamInfAttrs(e, Split(cut.after, ","), FALSE)

parseInfTag(e, tag) ==
    LET cut      == CutPrefix(tag, "EXTINF:")
        attrList == Split(cut.after, ",")
        dur      == ParseFloat(attrList[1])
    IN IF ~cut.found THEN [e |-> e, err |-> "malformed EXTINF tag"]
       ELSE IF Len(attrList) = 0 THEN [e |-> e, err |-> "EXTINF tag missing segment duration"]
       ELSE IF ~dur.ok
       THEN [e |-> e, err |-> "unable to parse segment duration from EXTINF tag"]
       ELSE [e |-> [e EXCEPT !.DurationSec = dur.val,
                             !.ExtraInfo = IF Len(attrList) > 1
                                           THEN Join(Tail(attrList), ",") ELSE @],
             err |-> ""]

parseMediaSequenceTag(pl, tag) ==
    LET cut           == CutPrefix(tag, "EXT-X-MEDIA-SEQUENCE:")
        mediaSequence == ParseUint(cut.after)
    IN IF ~cut.found THEN [pl |-> pl, err |-> "malformed EXT-X-MEDIA-SEQUENCE tag"]
       ELSE IF ~mediaSequence.ok
       THEN [pl |-> pl, err |-> "unable to parse media sequence from EXT-X-MEDIA-SEQUENCE tag"]
       ELSE [pl |-> [pl EXCEPT !.CurrentMediaSequence = mediaSequence.val], err |-> ""]

parseTargetDurationTag(pl, tag) ==
    LET cut               == CutPrefix(tag, "EXT-X-TARGETDURATION:")
        targetDurationSec == ParseUint(cut.after)
    IN IF ~cut.found THEN [pl |-> pl, err |-> "malformed EXT-X-TARGETDURATION tag"]
       ELSE IF ~targetDurationSec.ok
       THEN [pl |-> pl, err |-> "unable to parse target duration from EXT-X-TARGETDURATION tag"]
       ELSE [pl |-> [pl EXCEPT !.TargetDurationSec = targetDurationSec.val], err |-> ""]

---------------------------------------------------------------------------
(* package plist: Parse.  st is [pl, currentEntry, isExtM3U, err].          *)

WrapErr(idx, msg) == IF msg = "" THEN NoErr ELSE LineErr(idx, msg)

\* mutant: a segment-info tag leaves the kind alone, so that a stream-info tag
\* anywhere makes the playlist a master playlist
ParseTagLineMut(st, line, idx) ==
    LET extTag == CutPrefix(line, "#").after IN
    IF HasPrefix(extTag, "EXTM3U") THEN [st EXCEPT !.isExtM3U = TRUE]
    ELSE IF HasPrefix(extTag, "EXT-X-STREAM-INF")
    THEN LET r == parseStreamInfTag(EmptyEntry, extTag) IN
         [st EXCEPT !.pl.Type = MasterPlist, !.currentEntry = r.e,
                    !.err = WrapErr(idx, r.err)]
    ELSE IF HasPrefix(extTag, "EXTINF")
    THEN LET r == parseInfTag(EmptyEntry, extTag) IN
         [st EXCEPT !.currentEntry = r.e, !.err = WrapErr(idx, r.err)]
    ELSE IF HasPrefix(extTag, "EXT-X-MEDIA-SEQUENCE")
    THEN LET r == parseMediaSequenceTag(st.pl, extTag) IN
         [st EXCEPT !.pl = r.pl, !.err = WrapErr(idx, r.err)]
    ELSE IF HasPrefix(extTag, "EXT-X-TARGETDURATION")
    THEN LET r == parseTargetDurationTag(st.pl, extTag) IN
         [st EXCEPT !.pl = r.pl, !.err = WrapErr(idx, r.err)]
    ELSE st

\* the body of the range loop for a line that starts with "#EXT"
ParseTagLine(st, line, idx) ==
    LET extTag == CutPrefix(line, "#").after IN
    IF HasPrefix(extTag, "EXTM3U") THEN [st EXCEPT !.isExtM3U = TRUE]
    ELSE IF HasPrefix(extTag, "EXT-X-STREAM-INF")
    THEN LET r == parseStreamInfTag(EmptyEntry, extTag) IN
         [st EXCEPT !.pl.Type = MasterPlist, !.currentEntry = r.e,
                    !.err = WrapErr(idx, r.err)]
    ELSE IF HasPrefix(extTag, "EXTINF")
    THEN LET r == parseInfTag(EmptyEntry, extTag) IN
         [st EXCEPT !.pl.Type = VariantPlist, !.currentEntry = r.e,
                    !.err = WrapErr(idx, r.err)]
    ELSE IF HasPrefix(extTag, "EXT-X-MEDIA-SEQUENCE")
    THEN LET r == parseMediaSequenceTag(st.pl, extTag) IN
         [st EXCEPT !.pl = r.pl, !.err = WrapErr(idx, r.err)]
    ELSE IF HasPrefix(extTag, "EXT-X-TARGETDURATION")
    THEN LET r == parseTargetDurationTag(st.pl, extTag) IN
         [st EXCEPT !.pl = r.pl, !.err = WrapErr(idx, r.err)]
    ELSE st

\* mutant: the cursor is not moved on after an entry is stamped
ParseRefLineMut(st, line, baseUrl) ==
    LET url   == IF HasPrefix(line, "http") THEN line ELSE JoinPath(baseUrl, line)
        entry == [st.currentEntry EXCEPT !.URL = url,
                                         !.MediaSequence = st.pl.CurrentMediaSequence]
    IN [st EXCEPT !.pl.Entries = Append(@, entry),
                  !.currentEntry = EmptyEntry]

\* the body of the range loop for a reference line: the entry is completed,
\* stamped with the cursor and appended; the cursor moves on by one
ParseRefLine(st, line, baseUrl) ==
    LET url   == IF HasPrefix(line, "http") THEN line ELSE JoinPath(baseUrl, line)
        entry == [st.currentEntry EXCEPT !.URL = url,
                                         !.MediaSequence = st.pl.CurrentMediaSequence]
    IN [st EXCEPT !.pl.CurrentMediaSequence = @ + 1,
                  !.pl.Entries = Append(@, entry),
                  !.currentEntry = EmptyEntry]

\* mutant: a reference line that no tag opened an entry for is passed over
ParseLineMut(st, line, idx, baseUrl) ==
    IF HasPrefix(line, "#")
    THEN IF ~HasPrefix(line, "#EXT") THEN st ELSE ParseTagLine(st, line, idx)
    ELSE IF Len(line) = 0 \/ st.currentEntry = EmptyEntry THEN st
    ELSE ParseRefLine(st, line, baseUrl)

\* one iteration of the range loop over the lines
ParseLine(st, line, idx, baseUrl) ==
    IF HasPrefix(line, "#")
    THEN IF ~HasPrefix(line, "#EXT") THEN st ELSE ParseTagLine(st, line, idx)
    ELSE IF Len(line) = 0 THEN st
    ELSE ParseRefLine(st, line, baseUrl)

\* mutant: Parse returns without the check for the #EXTM3U tag
ParseFinishMut(st) == st

\* after the loop: the check for the #EXTM3U tag
ParseFinish(st) == IF ~st.isExtM3U THEN [st EXCEPT !.err = NotExtM3UErr] ELSE st

\* the locals of Parse on entry, for the Plist the caller passes
ParseStart(pl) == [pl |-> pl, currentEntry |-> EmptyEntry, isExtM3U |-> FALSE, err |-> NoErr]

\* the range loop from line idx (0-based) on, returning at the first error
RECURSIVE ParseFrom(_, _, _, _)
ParseFrom(st, lines, idx, baseUrl) ==
    IF idx >= Len(lines) THEN ParseFinish(st)
    ELSE LET nx == ParseLine(st, lines[idx + 1], idx, baseUrl) IN
         IF nx.err # NoErr THEN nx ELSE ParseFrom(nx, lines, idx + 1, baseUrl)

\* Parse(pl, plUrlStr, str) with lines = strings.Split(str, "\n"): (pl, err)
Parse(pl, plUrlStr, lines) ==
    LET st == ParseFrom(ParseStart(pl), lines, 0, BaseUrl(plUrlStr)) IN
    [pl |-> st.pl, err |-> st.err]

---------------------------------------------------------------------------
(* The playlist texts of the model *)

\* the URL the playlist is fetched from (the -url flag of main, Checker.URL)
PlUrl == "https://host/path/live.m3u8"

HeaderLine    == "#EXTM3U"
MediaSeqLine  == "#EXT-X-MEDIA-SEQUENCE:7"
TargetDurLine == "#EXT-X-TARGETDURATION:10"
InfLineA      == "#EXTINF:4.5,title"
InfLineB      == "#EXTINF:4,"
BadInfLine    == "#EXTINF:abc,"
BadStreamInfLine == "#EXT-X-STREAM-INF:RESOLUTION=1280x720"
BadMediaSeqLine  == "#EXT-X-MEDIA-SEQUENCE:x"
StreamInfLineA == "#EXT-X-STREAM-INF:BANDWIDTH=1280000,CODECS=\"mp4a.40.2\""
StreamInfLineB == "#EXT-X-STREAM-INF:CODECS=\"avc1.4d401f,mp4a.40.2\",BANDWIDTH=2560000"
StreamInfLineC == "#EXT-X-STREAM-INF:RESOLUTION=1280x720,BANDWIDTH=640000"

\* the pieces a text of SpecParse is put together from
Blocks ==
    { <<HeaderLine>>,
      <<MediaSeqLine>>,
      <<TargetDurLine>>,
      <<"# comment", "">>,
      <<InfLineA, "seg1.ts">>,
      <<InfLineB, "https://cdn/seg2.ts">>,
      <<BadInfLine>>,
      <<BadStreamInfLine>>,
      <<BadMediaSeqLine>>,
      <<"seg9.ts">>,
      <<StreamInfLineA, "low.m3u8">>,
      <<StreamInfLineB, "https://cdn/hi.m3u8">>,
      <<StreamInfLineC, "mid/v.m3u8">> }

RECURSIVE Flatten(_)
Flatten(bs) == IF Len(bs) = 0 THEN <<>> ELSE Head(bs) \o Flatten(Tail(bs))

\* how a text may begin
Prologues == { <<>>, <<HeaderLine>>, <<HeaderLine, MediaSeqLine>> }

\* strings.Split never returns an empty slice: the empty text is one empty line
AsLines(ls) == IF Len(ls) = 0 THEN <<"">> ELSE ls

\* every text of a prologue and up to max blocks
ParseTexts(max) ==
    UNION { { AsLines(pre \o Flatten(bs)) : pre \in Prologues, bs \in [1..n -> Blocks] } :
            n \in 0..max }

---------------------------------------------------------------------------
(* Initial values of the three groups of variables *)

\* checker.New: Checker{URL: url}
NewChecker(url) ==
    [URL |-> url, CurrentMediaSequence |-> 0, ClientErrorCount |-> 0,
     ServerErrorCount |-> 0, ProtocolErrorCount |-> 0, EmptySegmentErrorCount |-> 0]

CheckOK                == "CheckOK"
CheckClientError       == "CheckClientError"
CheckServerError       == "CheckServerError"
CheckProtocolError     == "CheckProtocolError"
CheckEmptySegmentError == "CheckEmptySegmentError"

ParseIdle ==
    /\ text = <<"">>
    /\ lineIdx = 0
    /\ pst = ParseStart(EmptyPlist)
    /\ ppc = "idle"

LoopIdle ==
    /\ lpc = "tick"
    /\ tickPending = FALSE
    /\ fired = "none"
    /\ overrun = FALSE
    /\ lpl = EmptyPlist
    /\ lerr = NoErr
    /\ li = 1
    /\ dispatched = <<>>
    /\ cycleStart = NewChecker(PlUrl)
    /\ cycleCalls = <<>>

MainIdle ==
    /\ spc = "idle"
    /\ spl = EmptyPlist
    /\ si = 1
    /\ monitors = <<>>

RetryIdle ==
    /\ rpc = "idle"
    /\ numRetries = 0
    /\ result = CheckOK
    /\ resp = <<>>
    /\ rlog = <<>>
    /\ c0 = NewChecker(PlUrl)

---------------------------------------------------------------------------
(* SpecParse: Parse(&Plist{}, PlUrl, str), one line of the range loop a step *)

InitParse ==
    /\ text \in ParseTexts(MaxBlocks)
    /\ lineIdx = 0
    /\ pst = ParseStart(EmptyPlist)
    /\ ppc = "loop"
    /\ c = NewChecker(PlUrl)
    /\ LoopIdle
    /\ RetryIdle
    /\ MainIdle

\* one iteration of "for lineIdx, line := range strings.Split(str, "\n")"
ParseStep ==
    /\ ppc = "loop"
    /\ lineIdx < Len(text)
    /\ pst' = ParseLine(pst, text[lineIdx + 1], lineIdx, BaseUrl(PlUrl))
    /\ IF pst'.err # NoErr
       THEN ppc' = "done" /\ lineIdx' = lineIdx
       ELSE ppc' = ppc /\ lineIdx' = lineIdx + 1
    /\ UNCHANGED <<mainVars, text, c, loopVars, retryVars>>

\* the range is exhausted: the #EXTM3U check, and Parse returns
ParseEnd ==
    /\ ppc = "loop"
    /\ lineIdx = Len(text)
    /\ pst' = ParseFinish(pst)
    /\ ppc' = "done"
    /\ UNCHANGED <<mainVars, text, lineIdx, c, loopVars, retryVars>>

NextParse == ParseStep \/ ParseEnd

SpecParse == InitParse /\ [][NextParse]_vars

---------------------------------------------------------------------------
(* The variant playlists the monitored server returns *)

DigitChar(d) == SubSeq("0123456789", d + 1, d + 1)

\* the decimal text of n, as the server writes it
RECURSIVE Itoa(_)
Itoa(n) == IF n < 10 THEN DigitChar(n) ELSE Itoa(n \div 10) \o DigitChar(n % 10)

\* m segment pairs, the segments named after the sequence numbers from s on
RECURSIVE SegPairs(_, _)
SegPairs(s, m) ==
    IF m = 0 THEN <<>>
    ELSE <<InfLineB, "seg" \o Itoa(s) \o ".ts">> \o SegPairs(s + 1, m - 1)

\* a playlist: with or without the header, with a media-sequence tag of value s
\* (none when s = -1), m segment pairs, then possibly a second media-sequence
\* tag that sets the cursor back to 0 for one more pair, then possibly a
\* segment-info tag that does not parse
ServerText(h, s, m, back, bad) ==
    AsLines((IF h THEN <<HeaderLine>> ELSE <<>>)
        \o (IF s < 0 THEN <<>> ELSE <<"#EXT-X-MEDIA-SEQUENCE:" \o Itoa(s)>>)
        \o SegPairs(IF s < 0 THEN 0 ELSE s, m)
        \o (IF back THEN <<"#EXT-X-MEDIA-SEQUENCE:0">> \o SegPairs(0, 1) ELSE <<>>)
        \o (IF bad THEN <<BadInfLine>> ELSE <<>>))

\* the choices of ServerText
ServerChoices == BOOLEAN \X (-1..MaxSeq) \X (0..MaxSegs) \X BOOLEAN \X BOOLEAN

\* what http.Get and io.ReadAll give FetchAndParse: a failure, or the body
Response(ok, ch) ==
    IF ok THEN [ok |-> TRUE, body |-> ServerText(ch[1], ch[2], ch[3], ch[4], ch[5])]
    ELSE [ok |-> FALSE, body |-> <<"">>]

---------------------------------------------------------------------------
(* package plist: FetchAndParse *)

\* (pl, err): a failed Get or ReadAll leaves pl alone, else Parse decides
FetchAndParse(pl, url, answer) ==
    IF ~answer.ok THEN [pl |-> pl, err |-> FetchErr]
    ELSE Parse(pl, url, answer.body)

---------------------------------------------------------------------------
(* package checker: Checker.Loop of one monitor *)

\* the ticker sends on its channel of capacity 1; a tick that finds it full is dropped
TimerFire ==
    /\ tickPending' = TRUE
    /\ fired' = IF fired = "none" THEN "one" ELSE "several"
    /\ UNCHANGED overrun
    /\ UNCHANGED <<mainVars, parseVars, c, lpc, lpl, lerr, li, dispatched, cycleStart, cycleCalls,
                   retryVars>>

\* mutant: the ticker's channel queues every tick, so that after several ticks
\* one is left for the next receive
LoopTickMut ==
    /\ lpc = "tick"
    /\ tickPending
    /\ tickPending' = (fired = "several")
    /\ fired' = IF fired = "several" THEN "one" ELSE "none"
    /\ overrun' = (fired = "several")
    /\ lpl' = EmptyPlist
    /\ lpc' = "fetch"
    /\ cycleStart' = c
    /\ cycleCalls' = <<>>
    /\ UNCHANGED <<mainVars, parseVars, c, lerr, li, dispatched, retryVars>>

\* "<-runTimer.C" and "pl := plist.Plist{}"
LoopTick ==
    /\ lpc = "tick"
    /\ tickPending
    /\ tickPending' = FALSE
    /\ fired' = "none"
    /\ overrun' = (fired = "several")
    /\ lpl' = EmptyPlist
    /\ lpc' = "fetch"
    /\ cycleStart' = c
    /\ cycleCalls' = <<>>
    /\ UNCHANGED <<mainVars, parseVars, c, lerr, li, dispatched, retryVars>>

\* mutant: the error of FetchAndParse is not looked at
FetchFailedMut(err) == FALSE

\* "err != nil" after FetchAndParse
FetchFailed(err) == err # NoErr

\* what FetchAndParse returns to Loop, over everything the server may answer:
\* pl is the fresh Plist{} and the url is the checker's, which New sets and
\* nothing changes
LoopFetchAndParse ==
    { FetchAndParse(EmptyPlist, PlUrl, Response(ok, ch)) : ok \in BOOLEAN, ch \in ServerChoices }

\* mutant: Loop returns when FetchAndParse fails
LoopFetchMut ==
    /\ lpc = "fetch"
    /\ lpl = EmptyPlist
    /\ c.URL = PlUrl
    /\ \E r \in LoopFetchAndParse :
          /\ lpl' = r.pl
          /\ lerr' = r.err
          /\ lpc' = IF FetchFailed(r.err) THEN "returned" ELSE "range"
    /\ li' = 1
    /\ UNCHANGED <<mainVars, parseVars, c, tickPending, fired, overrun, dispatched, cycleStart, cycleCalls, retryVars>>

\* "if err := plist.FetchAndParse(&pl, c.URL); err != nil { ...; continue }"
LoopFetch ==
    /\ lpc = "fetch"
    /\ lpl = EmptyPlist
    /\ c.URL = PlUrl
    /\ \E r \in LoopFetchAndParse :
          /\ lpl' = r.pl
          /\ lerr' = r.err
          /\ lpc' = IF FetchFailed(r.err) THEN "tick" ELSE "range"
    /\ li' = 1
    /\ UNCHANGED <<mainVars, parseVars, c, tickPending, fired, overrun, dispatched, cycleStart, cycleCalls, retryVars>>

\* mutant: only the entry the cursor stands on is skipped
AlreadyCheckedMut(seg, chk) == seg.MediaSequence = chk.CurrentMediaSequence

\* "seg.MediaSequence <= c.CurrentMediaSequence"
AlreadyChecked(seg, chk) == seg.MediaSequence <= chk.CurrentMediaSequence

\* mutant: the segment is checked before the test that skips it
LoopRangeSkipMut ==
    /\ lpc = "range"
    /\ li <= Len(lpl.Entries)
    /\ AlreadyChecked(lpl.Entries[li], c)
    /\ dispatched' = Append(dispatched, lpl.Entries[li].MediaSequence)
    /\ cycleCalls' = Append(cycleCalls, lpl.Entries[li].MediaSequence)
    /\ li' = li + 1
    /\ UNCHANGED <<mainVars, parseVars, c, lpc, tickPending, fired, overrun, lpl, lerr, cycleStart, retryVars>>

\* the range loop over pl.Entries, an entry that is skipped
LoopRangeSkip ==
    /\ lpc = "range"
    /\ li <= Len(lpl.Entries)
    /\ AlreadyChecked(lpl.Entries[li], c)
    /\ li' = li + 1
    /\ UNCHANGED <<mainVars, parseVars, c, lpc, tickPending, fired, overrun, lpl, lerr, dispatched, cycleStart,
                   cycleCalls, retryVars>>

\* the range loop over pl.Entries, an entry that is not skipped: the cursor is
\* set to its sequence number.  The loop body holds no call of RetryCheckSegment.
LoopRangeAdvance ==
    /\ lpc = "range"
    /\ li <= Len(lpl.Entries)
    /\ ~AlreadyChecked(lpl.Entries[li], c)
    /\ c' = [c EXCEPT !.CurrentMediaSequence = lpl.Entries[li].MediaSequence]
    /\ li' = li + 1
    /\ UNCHANGED <<mainVars, parseVars, lpc, tickPending, fired, overrun, lpl, lerr, dispatched, cycleStart,
                   cycleCalls, retryVars>>

\* the range loop is exhausted: back to the top of the for loop
LoopRangeEnd ==
    /\ lpc = "range"
    /\ li > Len(lpl.Entries)
    /\ lpc' = "tick"
    /\ UNCHANGED <<mainVars, parseVars, c, tickPending, fired, overrun, lpl, lerr, li, dispatched, cycleStart,
                   cycleCalls, retryVars>>

\* checker.New(PlUrl), and its Loop not yet past its first receive
Init ==
    /\ c = NewChecker(PlUrl)
    /\ ParseIdle
    /\ LoopIdle
    /\ RetryIdle
    /\ MainIdle

Next ==
    \/ TimerFire
    \/ LoopTick
    \/ LoopFetch
    \/ LoopRangeSkip
    \/ LoopRangeAdvance
    \/ LoopRangeEnd

Spec == Init /\ [][Next]_vars

\* a step of the goroutine that runs Loop
LoopStep == LoopTick \/ LoopFetch \/ LoopRangeSkip \/ LoopRangeAdvance \/ LoopRangeEnd

\* the ticker keeps firing, every http.Get returns and the goroutine is scheduled
SpecFair == Spec /\ WF_vars(TimerFire) /\ WF_vars(LoopStep)

---------------------------------------------------------------------------
(* package checker: CheckSegment and RetryCheckSegment *)

\* the status codes the segment server answers with
Statuses == {200, 400, 401, 404, 500, 501, 503}

\* what http.Get(seg.URL) and io.ReadAll(resp.Body) give CheckSegment: whether Get
\* failed, the status code, whether reading the body failed, the body's length
SegmentResponses ==
    [getErr : BOOLEAN, status : Statuses, readErr : BOOLEAN, bodyLen : 0..1]

\* mutant: the status tests are >= instead of >
CheckSegmentMut(r) ==
    IF r.getErr THEN CheckProtocolError
    ELSE IF r.status >= 500 THEN CheckServerError
    ELSE IF r.status >= 400 THEN CheckClientError
    ELSE IF r.readErr THEN CheckProtocolError
    ELSE IF r.bodyLen = 0 THEN CheckEmptySegmentError
    ELSE CheckOK

CheckSegment(r) ==
    IF r.getErr THEN CheckProtocolError
    ELSE IF r.status > 500 THEN CheckServerError
    ELSE IF r.status > 400 THEN CheckClientError
    ELSE IF r.readErr THEN CheckProtocolError
    ELSE IF r.bodyLen = 0 THEN CheckEmptySegmentError
    ELSE CheckOK

\* mutant: one attempt more
NumRetriesMut == 3 + 1

\* "numRetries := 3"
NumRetries == 3

\* mutant: the client and server cases of the switch are swapped
CountResultMut(chk, res) ==
    CASE res = CheckClientError       -> [chk EXCEPT !.ServerErrorCount = @ + 1]
      [] res = CheckServerError       -> [chk EXCEPT !.ClientErrorCount = @ + 1]
      [] res = CheckProtocolError     -> [chk EXCEPT !.ProtocolErrorCount = @ + 1]
      [] res = CheckEmptySegmentError -> [chk EXCEPT !.EmptySegmentErrorCount = @ + 1]
      [] OTHER                        -> chk

\* "switch result { ... }": the counter of the result goes up by one
CountResult(chk, res) ==
    CASE res = CheckClientError       -> [chk EXCEPT !.ClientErrorCount = @ + 1]
      [] res = CheckServerError       -> [chk EXCEPT !.ServerErrorCount = @ + 1]
      [] res = CheckProtocolError     -> [chk EXCEPT !.ProtocolErrorCount = @ + 1]
      [] res = CheckEmptySegmentError -> [chk EXCEPT !.EmptySegmentErrorCount = @ + 1]
      [] OTHER                        -> chk

ErrorTotal(chk) ==
    chk.ClientErrorCount + chk.ServerErrorCount + chk.ProtocolErrorCount
        + chk.EmptySegmentErrorCount

\* RetryCheckSegment is entered: "result := CheckOK; numRetries := 3".  It is an
\* exported method that nothing in the repository calls (Loop does not): the
\* caller here is any user of the package, with any segment.
RetryCall ==
    /\ rpc \in {"idle", "done"}
    /\ ErrorTotal(c) < MaxCount
    /\ result' = CheckOK
    /\ numRetries' = NumRetries
    /\ resp' = <<>>
    /\ rlog' = <<>>
    /\ c0' = c
    /\ rpc' = "cond"
    /\ UNCHANGED <<mainVars, parseVars, c, loopVars>>

\* "for numRetries > 0"
RetryCond ==
    /\ rpc = "cond"
    /\ rpc' = IF numRetries > 0 THEN "check" ELSE "switch"
    /\ UNCHANGED <<mainVars, parseVars, c, loopVars, numRetries, result, resp, rlog, c0>>

\* "result == CheckOK" is false: another attempt is due
Failed(res) == res # CheckOK

\* "result = c.CheckSegment(seg); if result == CheckOK { break }; numRetries--"
RetryCheck ==
    /\ rpc = "check"
    /\ \E r \in SegmentResponses :
          /\ resp' = <<r>>
          /\ result' = CheckSegment(r)
    /\ rlog' = Append(rlog, result')
    /\ IF Failed(result')
       THEN numRetries' = numRetries - 1 /\ rpc' = "sleep"
       ELSE numRetries' = numRetries /\ rpc' = "switch"
    /\ UNCHANGED <<mainVars, parseVars, c, loopVars, c0>>

\* "time.Sleep(250 * time.Millisecond)"
RetrySleep ==
    /\ rpc = "sleep"
    /\ rpc' = "cond"
    /\ resp' = <<>>
    /\ UNCHANGED <<mainVars, parseVars, c, loopVars, numRetries, result, rlog, c0>>

\* "switch result { ... }", and RetryCheckSegment returns
RetrySwitch ==
    /\ rpc = "switch"
    /\ c' = CountResult(c, result)
    /\ rpc' = "done"
    /\ resp' = <<>>
    /\ UNCHANGED <<mainVars, parseVars, loopVars, numRetries, result, rlog, c0>>

InitRetry ==
    /\ c = NewChecker(PlUrl)
    /\ ParseIdle
    /\ LoopIdle
    /\ RetryIdle
    /\ MainIdle

RetryRun == RetryCond \/ RetryCheck \/ RetrySleep \/ RetrySwitch

NextRetry == RetryCall \/ RetryCond \/ RetryCheck \/ RetrySleep \/ RetrySwitch

SpecRetry == InitRetry /\ [][NextRetry]_vars

\* every http.Get and ReadAll returns, and the sleep ends: once entered,
\* RetryCheckSegment keeps running
SpecRetryFair == SpecRetry /\ WF_vars(RetryRun)

---------------------------------------------------------------------------
(* main.StartPlaylistChecker and the goroutines of the checkers it starts *)

\* the most entries the playlist of the first fetch lists
MaxMonitors == 2

\* the tag/reference pairs the playlist of the first fetch is put together from
StartPairs ==
    { <<StreamInfLineA, "low.m3u8">>,
      <<StreamInfLineC, "mid/v.m3u8">>,
      <<InfLineB, "seg0.ts">> }

\* what the server may answer the first fetch: with or without the header, up
\* to max pairs
StartTexts(max) ==
    UNION { { AsLines(pre \o Flatten(bs)) : pre \in {<<>>, <<HeaderLine>>},
                                            bs \in [1..n -> StartPairs] } : n \in 0..max }

\* what FetchAndParse returns to StartPlaylistChecker: a failed fetch, or the
\* parse of the answer, relative to the URL of the -url flag
StartFetchAndParse ==
    { FetchAndParse(EmptyPlist, PlUrl, [ok |-> FALSE, body |-> <<"">>]) }
       \cup { FetchAndParse(EmptyPlist, PlUrl, [ok |-> TRUE, body |-> t]) :
                 t \in StartTexts(MaxMonitors) }

\* checker.New(url): the Checker, and "go c.Loop()" up to its first receive
NewMonitor(url) ==
    [c |-> NewChecker(url), lpc |-> "tick", pl |-> EmptyPlist, li |-> 1,
     besideHung |-> FALSE]

\* main calls StartPlaylistChecker(streamUrl)
StartCall ==
    /\ spc = "idle"
    /\ spc' = "fetch"
    /\ UNCHANGED <<parseVars, c, loopVars, retryVars, spl, si, monitors>>

\* "if err := plist.FetchAndParse(&pl, url); err != nil { ...; os.Exit(1) }"
StartFetch ==
    /\ spc = "fetch"
    /\ \E r \in StartFetchAndParse :
          /\ spl' = r.pl
          /\ spc' = IF FetchFailed(r.err) THEN "exit" ELSE "switch"
    /\ UNCHANGED <<parseVars, c, loopVars, retryVars, si, monitors>>

\* "switch pl.Type": the variant case starts the one checker; the master case
\* enters the range loop
StartSwitch ==
    /\ spc = "switch"
    /\ IF spl.Type = MasterPlist
       THEN /\ spc' = "range"
            /\ si' = 1
            /\ UNCHANGED monitors
       ELSE /\ monitors' = Append(monitors, NewMonitor(PlUrl))
            /\ spc' = "wait"
            /\ UNCHANGED si
    /\ UNCHANGED <<parseVars, c, loopVars, retryVars, spl>>

\* mutant: every checker of a master playlist is given the URL of the -url flag
StartRangeMut ==
    /\ spc = "range"
    /\ si <= Len(spl.Entries)
    /\ monitors' = Append(monitors, NewMonitor(PlUrl))
    /\ si' = si + 1
    /\ UNCHANGED <<parseVars, c, loopVars, retryVars, spc, spl>>

\* "for _, plEntry := range pl.Entries { checker.New(plEntry.URL) }"
StartRange ==
    /\ spc = "range"
    /\ si <= Len(spl.Entries)
    /\ monitors' = Append(monitors, NewMonitor(spl.Entries[si].URL))
    /\ si' = si + 1
    /\ UNCHANGED <<parseVars, c, loopVars, retryVars, spc, spl>>

\* the range loop is exhausted: StartPlaylistChecker returns, main waits for a signal
StartRangeEnd ==
    /\ spc = "range"
    /\ si > Len(spl.Entries)
    /\ spc' = "wait"
    /\ UNCHANGED <<parseVars, c, loopVars, retryVars, spl, si, monitors>>

StartStep == StartCall \/ StartFetch \/ StartSwitch \/ StartRange \/ StartRangeEnd

\* the variant playlists the server returns to the started checkers: one segment
\* of sequence number 1 under the header, or the same without the header
MonitorChoices == { <<TRUE, 1, 1, FALSE, FALSE>>, <<FALSE, 1, 1, FALSE, FALSE>> }

\* the URLs StartPlaylistChecker may call checker.New with
MonitorUrls ==
    {PlUrl} \cup UNION { { r.pl.Entries[k].URL : k \in 1..Len(r.pl.Entries) } :
                            r \in StartFetchAndParse }

\* what FetchAndParse returns to Loop, for every URL of a checker and
\* everything the server may answer
MonitorFetchResults ==
    { [url |-> u, ret |-> FetchAndParse(EmptyPlist, u, Response(ok, ch))] :
         u \in MonitorUrls, ok \in BOOLEAN, ch \in MonitorChoices }

\* what FetchAndParse returns to the Loop of a checker of the given URL
MonitorFetchAndParse(url) == { p.ret : p \in { q \in MonitorFetchResults : q.url = url } }

Started(i) == i <= Len(monitors)

Hung(i) == Started(i) /\ monitors[i].lpc = "hung"

\* Loop of checker i: a tick arrives on runTimer.C, and "pl := plist.Plist{}"
MonitorTick(i) ==
    /\ Started(i)
    /\ monitors[i].lpc = "tick"
    /\ monitors' = [monitors EXCEPT ![i].lpc = "fetch", ![i].pl = EmptyPlist,
                                    ![i].besideHung = \E j \in 1..Len(monitors) :
                                                          j # i /\ Hung(j)]
    /\ UNCHANGED <<parseVars, c, loopVars, retryVars, spc, spl, si>>

\* Loop of checker i: FetchAndParse returns; on an error the cycle is over
MonitorFetch(i) ==
    /\ Started(i)
    /\ monitors[i].lpc = "fetch"
    /\ \E r \in MonitorFetchAndParse(monitors[i].c.URL) :
          monitors' = IF FetchFailed(r.err)
                      THEN [monitors EXCEPT ![i].lpc = "tick", ![i].pl = EmptyPlist]
                      ELSE [monitors EXCEPT ![i].lpc = "range", ![i].pl = r.pl, ![i].li = 1]
    /\ UNCHANGED <<parseVars, c, loopVars, retryVars, spc, spl, si>>

\* Loop of checker i: http.Get, which has no timeout, never returns
MonitorHang(i) ==
    /\ Started(i)
    /\ monitors[i].lpc = "fetch"
    /\ monitors' = [monitors EXCEPT ![i].lpc = "hung"]
    /\ UNCHANGED <<parseVars, c, loopVars, retryVars, spc, spl, si>>

\* Loop of checker i: the range loop, an entry that is skipped
MonitorRangeSkip(i) ==
    /\ Started(i)
    /\ monitors[i].lpc = "range"
    /\ monitors[i].li <= Len(monitors[i].pl.Entries)
    /\ AlreadyChecked(monitors[i].pl.Entries[monitors[i].li], monitors[i].c)
    /\ monitors' = [monitors EXCEPT ![i].li = @ + 1]
    /\ UNCHANGED <<parseVars, c, loopVars, retryVars, spc, spl, si>>

\* mutant: the checkers share one Checker, so the cursor of every one is set
MonitorRangeAdvanceMut(i) ==
    /\ Started(i)
    /\ monitors[i].lpc = "range"
    /\ monitors[i].li <= Len(monitors[i].pl.Entries)
    /\ ~AlreadyChecked(monitors[i].pl.Entries[monitors[i].li], monitors[i].c)
    /\ monitors' =
          [j \in 1..Len(monitors) |->
              [monitors[j] EXCEPT
                  !.c.CurrentMediaSequence =
                      monitors[i].pl.Entries[monitors[i].li].MediaSequence,
                  !.li = IF j = i THEN @ + 1 ELSE @]]
    /\ UNCHANGED <<parseVars, c, loopVars, retryVars, spc, spl, si>>

\* Loop of checker i: the range loop, an entry that is not skipped
MonitorRangeAdvance(i) ==
    /\ Started(i)
    /\ monitors[i].lpc = "range"
    /\ monitors[i].li <= Len(monitors[i].pl.Entries)
    /\ ~AlreadyChecked(monitors[i].pl.Entries[monitors[i].li], monitors[i].c)
    /\ monitors' =
          [monitors EXCEPT
              ![i].c.CurrentMediaSequence =
                  monitors[i].pl.Entries[monitors[i].li].MediaSequence,
              ![i].li = @ + 1]
    /\ UNCHANGED <<parseVars, c, loopVars, retryVars, spc, spl, si>>

\* Loop of checker i: the range loop is exhausted, back to the top of the for loop
MonitorRangeEnd(i) ==
    /\ Started(i)
    /\ monitors[i].lpc = "range"
    /\ monitors[i].li > Len(monitors[i].pl.Entries)
    /\ monitors' = [monitors EXCEPT ![i].lpc = "tick", ![i].pl = EmptyPlist, ![i].li = 1]
    /\ UNCHANGED <<parseVars, c, loopVars, retryVars, spc, spl, si>>

\* a step of the Loop of checker i that returns from where it is
MonitorStep(i) ==
    \/ MonitorTick(i)
    \/ MonitorFetch(i)
    \/ MonitorRangeSkip(i)
    \/ MonitorRangeAdvance(i)
    \/ MonitorRangeEnd(i)

\* main is about to call StartPlaylistChecker; no checker exists
InitMain ==
    /\ c = NewChecker(PlUrl)
    /\ ParseIdle
    /\ LoopIdle
    /\ RetryIdle
    /\ MainIdle

NextMain ==
    \/ StartCall
    \/ StartFetch
    \/ StartSwitch
    \/ StartRange
    \/ StartRangeEnd
    \/ \E i \in 1..MaxMonitors : MonitorTick(i)
    \/ \E i \in 1..MaxMonitors : MonitorFetch(i)
    \/ \E i \in 1..MaxMonitors : MonitorHang(i)
    \/ \E i \in 1..MaxMonitors : MonitorRangeSkip(i)
    \/ \E i \in 1..MaxMonitors : MonitorRangeAdvance(i)
    \/ \E i \in 1..MaxMonitors : MonitorRangeEnd(i)

SpecMain == InitMain /\ [][NextMain]_vars

\* the goroutines are scheduled, the tickers keep firing and every http.Get
\* that does not hang returns: StartPlaylistChecker and every Loop keep running
SpecMainFair ==
    /\ SpecMain
    /\ WF_vars(StartStep)
    /\ \A i \in 1..MaxMonitors : WF_vars(MonitorStep(i))

---------------------------------------------------------------------------
(* Properties of Checker.Loop, under Spec *)

\* the entry the range loop of Loop is at
CurrentSeg == lpl.Entries[li]

\* the range loop of Loop takes the step for the entry it is at
ExaminesEntry == lpc = "range" /\ li <= Len(lpl.Entries) /\ li' = li + 1

\* the largest element of a non-empty sequence of numbers
SeqMax(q) == CHOOSE m \in { q[i] : i \in 1..Len(q) } : \A j \in 1..Len(q) : q[j] <= m

\* C1: in a cycle whose fetch and parse succeeded, every entry whose
\* mediaSequence is greater than the stored cursor when the loop examines it is
\* passed to RetryCheckSegment (once, by that step), and the cursor is then
\* advanced to that entry's sequence number.
C1_DispatchOnExamine ==
    [][ (ExaminesEntry /\ CurrentSeg.MediaSequence > c.CurrentMediaSequence)
          => /\ cycleCalls' = Append(cycleCalls, CurrentSeg.MediaSequence)
             /\ dispatched' = Append(dispatched, CurrentSeg.MediaSequence)
             /\ c'.CurrentMediaSequence = CurrentSeg.MediaSequence ]_vars

\* C2: the stored cursor never decreases, whatever the server returns and
\* whether cycles succeed or fail; and a successful cycle that dispatched at
\* least one entry ends with the cursor equal to the largest sequence number
\* it dispatched.
C2_CursorMonotone ==
    [][ /\ c'.CurrentMediaSequence >= c.CurrentMediaSequence
        /\ (lpc = "range" /\ lpc' = "tick" /\ cycleCalls' # <<>>)
              => c'.CurrentMediaSequence = SeqMax(cycleCalls') ]_vars

\* a successful cycle has ended that listed entries below the cursor it
\* started with, and the cursor is where it was
C2_Witness ==
    /\ lpc = "tick"
    /\ lerr = NoErr
    /\ cycleStart.CurrentMediaSequence > 0
    /\ c.CurrentMediaSequence = cycleStart.CurrentMediaSequence
    /\ \E i \in 1..Len(lpl.Entries) :
          lpl.Entries[i].MediaSequence < cycleStart.CurrentMediaSequence

\* C3: a cycle whose playlist fetch or parse failed leaves the cursor and the
\* four counters (the whole Checker) as they were when the cycle started and
\* dispatches nothing, also when the failed parse had collected entries.
C3_FailedCycleChangesNothing ==
    (lpc = "tick" /\ lerr # NoErr) => (c = cycleStart /\ cycleCalls = <<>>)

\* a cycle has failed on the missing header, at the end of the pass, after
\* Parse had collected an entry above the cursor
C3_Witness ==
    /\ lpc = "tick"
    /\ lerr = NotExtM3UErr
    /\ \E i \in 1..Len(lpl.Entries) :
          lpl.Entries[i].MediaSequence > c.CurrentMediaSequence

C5_EveryEntryDispatched ==
    (lpc = "tick" /\ lerr = NoErr)
       => \A i \in 1..Len(lpl.Entries) :
             \E j \in 1..Len(dispatched) : dispatched[j] = lpl.Entries[i].MediaSequence

---------------------------------------------------------------------------
(* Properties of RetryCheckSegment and CheckSegment, under SpecRetry *)

LastResult == rlog[Len(rlog)]

\* C6: RetryCheckSegment calls CheckSegment at least once and at most 3 times;
\* no call follows the first OK; a non-OK result is followed by another call
\* as long as fewer than 3 were made; and, every CheckSegment call returning,
\* RetryCheckSegment returns.
C6_RetryBounded ==
    /\ [] /\ Len(rlog) <= 3
          /\ rpc = "done" => Len(rlog) >= 1
          /\ \A i \in 1..(Len(rlog) - 1) : rlog[i] # CheckOK
          /\ (rpc \in {"switch", "done"} /\ LastResult # CheckOK) => Len(rlog) = 3
    /\ (rpc = "cond") ~> (rpc = "done")

\* RetryCheckSegment has returned after two failed attempts and a third that was OK
C6_Witness ==
    /\ rpc = "done"
    /\ Len(rlog) = 3
    /\ rlog[3] = CheckOK

ErrorKinds ==
    {CheckClientError, CheckServerError, CheckProtocolError, CheckEmptySegmentError}

\* the counter of the checker that belongs to an error classification
CounterFor(chk, kind) ==
    CASE kind = CheckClientError       -> chk.ClientErrorCount
      [] kind = CheckServerError       -> chk.ServerErrorCount
      [] kind = CheckProtocolError     -> chk.ProtocolErrorCount
      [] kind = CheckEmptySegmentError -> chk.EmptySegmentErrorCount

\* C7: when RetryCheckSegment returns, if the last attempt was OK no counter
\* has changed; if all three attempts failed, the counter of the third
\* attempt's classification is up by exactly 1 and the other three are
\* unchanged, whatever the earlier attempts were classified as.
C7_CountsFinalResult ==
    rpc = "done" =>
       /\ c.URL = c0.URL
       /\ c.CurrentMediaSequence = c0.CurrentMediaSequence
       /\ IF LastResult = CheckOK
          THEN \A k \in ErrorKinds : CounterFor(c, k) = CounterFor(c0, k)
          ELSE /\ Len(rlog) = 3
               /\ \A k \in ErrorKinds :
                     CounterFor(c, k) = CounterFor(c0, k) + (IF k = rlog[3] THEN 1 ELSE 0)

\* RetryCheckSegment has returned after three failed attempts, the third
\* classified differently from the first two
C7_Witness ==
    /\ rpc = "done"
    /\ Len(rlog) = 3
    /\ rlog[3] # CheckOK
    /\ rlog[1] # rlog[3]
    /\ rlog[2] # rlog[3]

\* the body alone decides: OK if it is not empty, EmptySegmentError if it is
ByBody(r) == IF r.bodyLen = 0 THEN CheckEmptySegmentError ELSE CheckOK

\* the classification order of the claim, first match wins
FirstMatch(r) ==
    CASE r.getErr       -> CheckProtocolError
      [] r.status > 500 -> CheckServerError
      [] r.status > 400 -> CheckClientError
      [] r.readErr      -> CheckProtocolError
      [] OTHER          -> ByBody(r)

---------------------------------------------------------------------------
(* Properties of Parse, under SpecParse.  What a line of the model's texts   *)
(* declares is read off the line as written, not taken from the parser.     *)

IsInfLine(l)       == l \in {InfLineA, InfLineB}
IsStreamInfLine(l) == l \in {StreamInfLineA, StreamInfLineB, StreamInfLineC}
IsRefLine(l)       == Len(l) > 0 /\ SubSeq(l, 1, 1) # "#"
IsFillLine(l)      == l \in {TargetDurLine, "# comment", ""}

\* the bandwidth a stream-info line declares
DeclaredBandwidth(l) ==
    CASE l = StreamInfLineA -> 1280000
      [] l = StreamInfLineB -> 2560000
      [] l = StreamInfLineC -> 640000

\* the value a media-sequence line declares
DeclaredMediaSequence(l) == CASE l = MediaSeqLine -> 7

\* the absolute URL a reference line of the model's texts stands for, under PlUrl
ResolvedUrl(l) ==
    CASE l = "seg1.ts"    -> "https://host/path/seg1.ts"
      [] l = "seg9.ts"    -> "https://host/path/seg9.ts"
      [] l = "low.m3u8"   -> "https://host/path/low.m3u8"
      [] l = "mid/v.m3u8" -> "https://host/path/mid/v.m3u8"
      [] OTHER            -> l

Positions(t, Test(_)) == { i \in 1..Len(t) : Test(t[i]) }

\* every tag line that opens an entry is followed at once by its reference
\* line, and every reference line follows such a tag line
Paired(t, IsTag(_)) ==
    /\ \A i \in 1..Len(t) : IsTag(t[i]) => (i < Len(t) /\ IsRefLine(t[i + 1]))
    /\ \A i \in 1..Len(t) : IsRefLine(t[i]) => (i > 1 /\ IsTag(t[i - 1]))

\* a variant playlist: the header first, at most one media-sequence tag and
\* that before the first segment, segment-info/reference pairs
WellFormedVariant(t) ==
    /\ t[1] = HeaderLine
    /\ \A i \in 2..Len(t) :
          IsInfLine(t[i]) \/ IsRefLine(t[i]) \/ IsFillLine(t[i]) \/ t[i] = MediaSeqLine
    /\ Paired(t, IsInfLine)
    /\ Cardinality({ i \in 1..Len(t) : t[i] = MediaSeqLine }) <= 1
    /\ \A i, j \in 1..Len(t) : (t[i] = MediaSeqLine /\ IsInfLine(t[j])) => i < j

\* a master playlist: the header first, stream-info/reference pairs
WellFormedMaster(t) ==
    /\ t[1] = HeaderLine
    /\ \A i \in 2..Len(t) : IsStreamInfLine(t[i]) \/ IsRefLine(t[i]) \/ IsFillLine(t[i])
    /\ Paired(t, IsStreamInfLine)

\* S of the claim: the value of the media-sequence tag, 0 without one
StartSequence(t) ==
    IF \E i \in 1..Len(t) : t[i] = MediaSeqLine THEN DeclaredMediaSequence(MediaSeqLine)
    ELSE 0

\* C9: a well-formed variant playlist with one media-sequence tag of value S
\* before the first segment (S = 0 without the tag) and M
\* segment-info/reference pairs parses, into a fresh Plist, to exactly M
\* entries in source order with mediaSequence S, S+1, ..., S+M-1, and leaves
\* CurrentMediaSequence = S+M.
C9_VariantSequence ==
    (ppc = "done" /\ WellFormedVariant(text)) =>
       LET S    == StartSequence(text)
           M    == Cardinality(Positions(text, IsInfLine))
           refs == SelectSeq(text, IsRefLine)
       IN /\ pst.err = NoErr
          /\ Len(pst.pl.Entries) = M
          /\ \A k \in 1..M : /\ pst.pl.Entries[k].MediaSequence = S + k - 1
                             /\ pst.pl.Entries[k].URL = ResolvedUrl(refs[k])
          /\ pst.pl.CurrentMediaSequence = S + M

\* Parse has returned from a well-formed variant playlist with the
\* media-sequence tag and three segment pairs
C9_Witness ==
    /\ ppc = "done"
    /\ WellFormedVariant(text)
    /\ \E i \in 1..Len(text) : text[i] = MediaSeqLine
    /\ Cardinality(Positions(text, IsInfLine)) = 3

\* C10: a well-formed master playlist with N stream-info/reference pairs parses
\* to a playlist of kind Master with exactly N entries, the i-th carrying the
\* bandwidth its stream-info tag declares and the URL of its reference line,
\* in source order.
C10_MasterEntries ==
    (ppc = "done" /\ WellFormedMaster(text)) =>
       LET tags == SelectSeq(text, IsStreamInfLine)
           refs == SelectSeq(text, IsRefLine)
           N    == Len(tags)
       IN /\ pst.err = NoErr
          /\ N > 0 => pst.pl.Type = MasterPlist
          /\ Len(pst.pl.Entries) = N
          /\ \A k \in 1..N : /\ pst.pl.Entries[k].BandwidthBps = DeclaredBandwidth(tags[k])
                             /\ pst.pl.Entries[k].URL = ResolvedUrl(refs[k])

---------------------------------------------------------------------------
(* More properties of Parse, under SpecParse *)

\* a header line, as written
IsHeaderLine(l) == Len(l) >= 7 /\ SubSeq(l, 1, 7) = "#EXTM3U"

HasHeader(t) == \E i \in 1..Len(t) : IsHeaderLine(t[i])

\* the tag lines of the model's texts whose value is not what the tag asks for
IsBrokenTagLine(l) == l \in {BadInfLine, BadStreamInfLine, BadMediaSeqLine}

\* C11: Parse returns an error for every text without a header line, whatever
\* else it holds; the check is made once, after the full pass, so a header at
\* any position satisfies it; and the error of a tag earlier in the text is
\* reported instead of the missing-header error.
C11_HeaderCheckedLast ==
    ppc = "done" =>
       /\ ~HasHeader(text) => pst.err # NoErr
       /\ pst.err = NotExtM3UErr <=> (~HasHeader(text) /\ lineIdx = Len(text))
       /\ (HasHeader(text) /\ lineIdx = Len(text)) => pst.err = NoErr
       /\ lineIdx < Len(text) => pst.err.line = lineIdx
       /\ (\E i \in 1..Len(text) : IsBrokenTagLine(text[i]))
             => (pst.err # NoErr /\ pst.err # NotExtM3UErr /\ lineIdx < Len(text))

\* Parse has gone through a text of well-formed tags and reference lines that
\* has no header, has collected entries, and has returned the missing-header error
C11_Witness ==
    /\ ppc = "done"
    /\ ~HasHeader(text)
    /\ lineIdx = Len(text)
    /\ Len(pst.pl.Entries) >= 2
    /\ pst.pl.CurrentMediaSequence > 0
    /\ pst.err = NotExtM3UErr

\* C15: during one parse pass the cursor (CurrentMediaSequence) never
\* decreases: whatever the text, with several media-sequence tags or with one
\* after some segments, each step of the pass leaves the cursor greater than
\* or equal to what it was.
C15_ParseCursorMonotone ==
    [][ pst'.pl.CurrentMediaSequence >= pst.pl.CurrentMediaSequence ]_vars

\* C16: in every playlist a successful parse returns, the mediaSequence values
\* of the entries are pairwise distinct and strictly increasing in entry order.
C16_SequenceStrictlyIncreasing ==
    (ppc = "done" /\ pst.err = NoErr) =>
       \A i, j \in 1..Len(pst.pl.Entries) :
          i < j => pst.pl.Entries[i].MediaSequence < pst.pl.Entries[j].MediaSequence

\* C17: when a recognized tag on the k-th line of the text, the first line
\* counted as 1, fails to parse (a segment-info tag with a non-numeric
\* duration, a stream-info tag without bandwidth, a non-numeric media-sequence
\* value), Parse returns an error annotated with line number k.
C17_ErrorLineOneBased ==
    (ppc = "done" /\ lineIdx < Len(text) /\ IsBrokenTagLine(text[lineIdx + 1]))
       => (pst.err # NoErr /\ pst.err.line = lineIdx + 1)

\* the largest element of a non-empty set of numbers
SetMax(S) == CHOOSE m \in S : \A x \in S : x <= m

\* the duration a segment-info line declares, in thousandths of a second
DeclaredDuration(l) ==
    CASE l = InfLineA -> 4500
      [] l = InfLineB -> 4000

\* the positions of the reference lines among the first n lines, in order
RefPositions(t, n) == SelectSeq([i \in 1..n |-> i], LAMBDA i : IsRefLine(t[i]))

\* the positions of the stream-info and segment-info tags of the text
EntryTagPositions(t) == { i \in 1..Len(t) : IsInfLine(t[i]) \/ IsStreamInfLine(t[i]) }

\* C18: the kind of a successfully parsed playlist is decided by the last
\* stream-info or segment-info tag of the text: Master if that is a stream-info
\* tag, Variant if it is a segment-info tag (and Variant without any); a text
\* that mixes both parses, and its entries, of both shapes, are in one
\* sequence in source order.
C18_LastTagDecidesKind ==
    (ppc = "done" /\ pst.err = NoErr) =>
       LET tags == EntryTagPositions(text)
           refs == RefPositions(text, Len(text))
       IN /\ pst.pl.Type = IF tags # {} /\ IsStreamInfLine(text[SetMax(tags)])
                           THEN MasterPlist ELSE VariantPlist
          /\ Len(pst.pl.Entries) = Len(refs)
          /\ \A k \in 1..Len(refs) :
                LET p == refs[k]
                    e == pst.pl.Entries[k]
                IN /\ e.URL = ResolvedUrl(text[p])
                   /\ e.BandwidthBps = IF p > 1 /\ IsStreamInfLine(text[p - 1])
                                       THEN DeclaredBandwidth(text[p - 1]) ELSE 0
                   /\ e.DurationSec = IF p > 1 /\ IsInfLine(text[p - 1])
                                      THEN DeclaredDuration(text[p - 1]) ELSE 0

\* Parse has returned without error from a text in which a stream-info pair
\* follows a segment-info pair: a master playlist whose first entry is a segment
C18_Witness ==
    /\ ppc = "done"
    /\ pst.err = NoErr
    /\ pst.pl.Type = MasterPlist
    /\ Len(pst.pl.Entries) >= 2
    /\ pst.pl.Entries[1].DurationSec > 0
    /\ pst.pl.Entries[1].BandwidthBps = 0
    /\ pst.pl.Entries[Len(pst.pl.Entries)].BandwidthBps > 0

\* the cursor after the first n lines: the value of the last media-sequence
\* tag among them (0 without one) plus the number of reference lines after it
CursorAfter(t, n) ==
    LET seqTags == { i \in 1..n : t[i] = MediaSeqLine }
        from    == IF seqTags = {} THEN 0 ELSE SetMax(seqTags)
    IN (IF seqTags = {} THEN 0 ELSE DeclaredMediaSequence(t[from]))
          + Cardinality({ i \in (from + 1)..n : IsRefLine(t[i]) })

\* C20: Parse appends exactly one entry for every non-blank line that does not
\* start with '#', whether or not a tag opened an entry before it, stamps it
\* with the cursor and moves the cursor on by one, whatever the kind: after any
\* number of lines the entries are as many as the reference lines among them,
\* and the cursor is the value of the last media-sequence tag (or 0) plus the
\* number of reference lines after it.
C20_EntryPerReferenceLine ==
    LET refs == RefPositions(text, lineIdx) IN
    /\ Len(pst.pl.Entries) = Len(refs)
    /\ \A k \in 1..Len(refs) :
          pst.pl.Entries[k].MediaSequence = CursorAfter(text, refs[k] - 1)
    /\ pst.pl.CurrentMediaSequence = CursorAfter(text, lineIdx)

\* Parse has returned a master playlist from a text with a reference line that
\* no tag stands before and a media-sequence tag after the first entry
C20_Witness ==
    /\ ppc = "done"
    /\ pst.err = NoErr
    /\ pst.pl.Type = MasterPlist
    /\ Len(pst.pl.Entries) >= 2
    /\ pst.pl.Entries[1].MediaSequence = 0
    /\ pst.pl.CurrentMediaSequence > DeclaredMediaSequence(MediaSeqLine)
    /\ \E k \in 1..Len(pst.pl.Entries) :
          /\ pst.pl.Entries[k].BandwidthBps = 0
          /\ pst.pl.Entries[k].DurationSec = 0
          /\ pst.pl.Entries[k].URL = "https://host/path/seg9.ts"

---------------------------------------------------------------------------
(* Properties of the cycles of Checker.Loop, under SpecFair and Spec *)

\* C13: a monitor never stops because of an error: Loop is always waiting for
\* a tick, fetching or walking the entries, and waits for nothing but the tick
\* or the answer of the server; after a cycle whose fetch or parse failed it
\* is back at the tick and, ticks firing and calls returning, refreshes again;
\* and it refreshes again and again.
C13_LoopNeverStops ==
    /\ [](lpc \in {"tick", "fetch", "range"})
    /\ []((lpc = "tick" /\ ~tickPending) \/ ENABLED <<LoopStep>>_vars)
    /\ [][(lpc = "fetch" /\ lpc' # "fetch" /\ lerr' # NoErr) => lpc' = "tick"]_vars
    /\ (lpc = "tick" /\ lerr # NoErr) ~> (lpc = "fetch")
    /\ []<>(lpc = "fetch")

\* Loop is refreshing again, in the cycle after one whose parse failed at a
\* tag, with a cursor that earlier cycles had moved
C13_Witness ==
    /\ lpc = "fetch"
    /\ lerr # NoErr
    /\ lerr.line >= 0
    /\ c.CurrentMediaSequence > 0

\* C14: cycles of one monitor never overlap: a tick is received only while
\* Loop waits at the top of its for loop, that is after the previous cycle has
\* returned, and a cycle starts only by receiving a tick; ticks that fire
\* while a cycle runs do not accumulate: however often the ticker fired, what
\* is pending is one tick, and receiving it starts one cycle and leaves none.
C14_CyclesDoNotOverlap ==
    /\ [](tickPending <=> fired # "none")
    /\ [][ (tickPending /\ ~tickPending') => (lpc = "tick" /\ lpc' = "fetch") ]_vars
    /\ [][ (lpc' = "fetch" /\ lpc # "fetch")
              => (lpc = "tick" /\ tickPending /\ ~tickPending' /\ fired' = "none") ]_vars
    /\ [][ (lpc # "tick") => (lpc' \in {lpc, "range", "tick"} /\ cycleStart' = cycleStart) ]_vars

\* the ticker had fired several times when Loop received a tick; the one cycle
\* that tick started has moved the cursor and returned, and Loop waits with no
\* tick pending
C14_Witness ==
    /\ lpc = "tick"
    /\ overrun
    /\ ~tickPending
    /\ lerr = NoErr
    /\ c.CurrentMediaSequence > cycleStart.CurrentMediaSequence

---------------------------------------------------------------------------
(* Properties of StartPlaylistChecker and of checkers side by side, under  *)
(* SpecMain                                                                *)

ZeroCounters(chk) ==
    /\ chk.ClientErrorCount = 0
    /\ chk.ServerErrorCount = 0
    /\ chk.ProtocolErrorCount = 0
    /\ chk.EmptySegmentErrorCount = 0

\* C12: after a successful first fetch and parse exactly one monitor is started
\* per entry of a Master playlist, each with that entry's URL, and exactly one,
\* with the original URL, for a Variant playlist; a failed first fetch starts
\* none; and each monitor starts with cursor 0 and all four counters 0.
C12_OneMonitorPerEntry ==
    /\ [] /\ spc = "wait" =>
               IF spl.Type = MasterPlist
               THEN /\ Len(monitors) = Len(spl.Entries)
                    /\ \A k \in 1..Len(monitors) : monitors[k].c.URL = spl.Entries[k].URL
               ELSE /\ Len(monitors) = 1
                    /\ monitors[1].c.URL = PlUrl
          /\ spc \in {"idle", "fetch", "switch", "exit"} => monitors = <<>>
    /\ [][ /\ Len(monitors') >= Len(monitors)
           /\ \A k \in 1..Len(monitors) : monitors'[k].c.URL = monitors[k].c.URL
           /\ Len(monitors') > Len(monitors) =>
                 /\ Len(monitors') = Len(monitors) + 1
                 /\ monitors'[Len(monitors')].c.CurrentMediaSequence = 0
                 /\ ZeroCounters(monitors'[Len(monitors')].c)
                 /\ monitors'[Len(monitors')].lpc = "tick" ]_vars

\* StartPlaylistChecker has returned from a master playlist of two different
\* variants, with a checker for each
C12_Witness ==
    /\ spc = "wait"
    /\ spl.Type = MasterPlist
    /\ Len(spl.Entries) = 2
    /\ Len(monitors) = 2
    /\ monitors[1].c.URL = "https://host/path/low.m3u8"
    /\ monitors[2].c.URL = "https://host/path/mid/v.m3u8"

\* C19: with two or more monitors, every step of one monitor changes only its
\* own state (its cursor and counters among it) and leaves every other
\* monitor's as it was, and nothing changes a monitor's URL; and a monitor that
\* is blocked for ever in an HTTP call holds up no other: every monitor that
\* is started and not itself blocked goes on refreshing and completing cycles.
C19_MonitorsIndependent ==
    /\ [][ \A i \in 1..Len(monitors) :
              /\ monitors'[i].c.URL = monitors[i].c.URL
              /\ monitors'[i] # monitors[i]
                    => \A j \in 1..Len(monitors) : j # i => monitors'[j] = monitors[j] ]_vars
    /\ \A i \in 1..MaxMonitors :
          /\ []<>(spc # "wait" \/ ~Started(i) \/ Hung(i) \/ monitors[i].lpc = "fetch")
          /\ []<>(spc # "wait" \/ ~Started(i) \/ Hung(i) \/ monitors[i].lpc = "tick")

\* one monitor is blocked in its HTTP call, and another has since begun a
\* cycle, moved its cursor and returned to the tick
C19_Witness ==
    \E i, j \in 1..Len(monitors) :
       /\ i # j
       /\ Hung(j)
       /\ monitors[i].besideHung
       /\ monitors[i].lpc = "tick"
       /\ monitors[i].c.CurrentMediaSequence > 0
       /\ monitors[j].c.CurrentMediaSequence = 0

===========================================================================
